---- MODULE Spec2Model ----
(***************************************************************************)
(* A model of the two mechanisms of mcp-devop that carry state:            *)
(*   - run_cloudwatch_logs_query (src/server.py): submit a Logs Insights   *)
(*     query, poll get_query_results until the status is not 'Running',    *)
(*     reshape the rows;                                                   *)
(*   - get_google_credentials (src/gdrive_mcp_server.py): the token.json   *)
(*     cache, refresh and interactive authorization;                       *)
(* and of the error wrapping of the tool endpoints of both servers.        *)
(***************************************************************************)
EXTENDS Integers, Sequences, FiniteSets, TLC

VARIABLES
    pc,         \* per invocation of run_cloudwatch_logs_query: its position
    clock,      \* time.time(), in seconds
    query_id,   \* per invocation: start_query_response['queryId'] (0: unset)
    response,   \* per invocation: the local `response` of the poll loop
    ret,        \* per invocation: the value returned
    jobs,       \* the service: the query jobs, indexed by queryId
    api_log,    \* per invocation: the calls it made to the Logs client
    cache,      \* token.json (None: the file does not exist)
    authz,      \* the authorization server: tokens issued, expired, revoked
    ipc,        \* per endpoint invocation: its position
    endpoint,   \* per endpoint invocation: the operation invoked
    creds,      \* per invocation: the local `creds` of get_google_credentials
    acq,        \* per invocation: what its get_google_credentials call did
    out,        \* per invocation: how the endpoint ended
    environ,    \* os.environ after load_dotenv(): the variables that are set
    proc,       \* the positions of server.py's module load and of run.py
    AWS_REGION, \* server.py: the module's AWS_REGION
    boto3_config, \* server.py: the module's boto3_config
    cursor_dir, \* ~/.cursor: whether it exists, and its mcp.json
    setup       \* what the call of setup_cursor_mcp was given and returned

qvars == <<pc, clock, query_id, response, ret, jobs, api_log>>
cvars == <<cache, authz, ipc, endpoint, creds, acq, out>>
svars == <<environ, proc, AWS_REGION, boto3_config, cursor_dir, setup>>
vars == <<pc, clock, query_id, response, ret, jobs, api_log,
          cache, authz, ipc, endpoint, creds, acq, out,
          environ, proc, AWS_REGION, boto3_config, cursor_dir, setup>>

----------------------------------------------------------------------------
(* Bounds of the model *)

MaxRunning == 2     \* 'Running' observations one invocation may make
MaxRows == 2        \* rows of a result table
MaxFields == 2      \* (field, value) pairs of one row
BootTime == 100000  \* the clock when the model starts
MaxObjects == 3     \* objects of one S3 listing
MaxPoints == 3      \* datapoints of one get_metric_statistics response
MaxLines == 2       \* assignments of an env file

(* Program constants *)

DefaultHours == 24
SecondsPerHour == 3600
QueryLimit == 1000
SleepSeconds == 1

----------------------------------------------------------------------------
(* Python values *)

None == [none |-> TRUE]

\* dict.get(key, default)
Get(d, key, default) == IF key \in DOMAIN d THEN d[key] ELSE default

EmptyDict == [k \in {} |-> ""]

----------------------------------------------------------------------------
(* The CloudWatch Logs Insights service *)

Calls == {"c1", "c2"}

Statuses == {"Scheduled", "Running", "Complete", "Failed", "Cancelled", "Timeout"}
Terminal == {"Complete", "Failed", "Cancelled", "Timeout"}

ErrMsgs == {"ThrottlingException", "AccessDeniedException"}

FieldNames == {"x", "y"}
FieldValues == {"1", "2"}
Pairs == [field : FieldNames, value : FieldValues]

SeqsUpTo(S, n) == UNION {[1..k -> S] : k \in 0..n}

ResultRows == SeqsUpTo(Pairs, MaxFields)
ResultTables == SeqsUpTo(ResultRows, MaxRows)

\* The payload of a get_query_results response beside its status: 'results'
\* may be absent.
Payloads(tables) == {EmptyDict} \cup {[results |-> t] : t \in tables}

AllPayloads == Payloads(ResultTables)

FewPayloads ==
    Payloads({<<>>, << <<[field |-> "x", value |-> "1"]>> >>})

\* The 'statistics' of a response: any of the three may be missing.
StatisticValues == {0, 3, 8}
StatisticDicts == UNION {[ks -> StatisticValues] : ks \in SUBSET
    {"recordsMatched", "recordsScanned", "bytesScanned"}}

\* Payloads with or without 'results', with or without 'statistics'.
StatPayloads ==
    {EmptyDict, [results |-> <<>>]}
    \cup {[statistics |-> d] : d \in StatisticDicts}
    \cup {[results |-> <<>>, statistics |-> d] : d \in StatisticDicts}

\* A job moves forward only: Scheduled, Running, then a terminal status.
Rank(s) == CASE s = "Scheduled" -> 0 [] s = "Running" -> 1 [] OTHER -> 2

\* The service advances job q to a later status of `targets`.
JobStep(q, targets) ==
    /\ q \in DOMAIN jobs
    /\ jobs[q].status \notin Terminal
    /\ \E s \in targets :
          /\ Rank(s) > Rank(jobs[q].status)
          /\ jobs' = [jobs EXCEPT ![q].status = s]
    /\ UNCHANGED <<pc, clock, query_id, response, ret, api_log>>
    /\ UNCHANGED <<cvars, svars>>

----------------------------------------------------------------------------
(* run_cloudwatch_logs_query *)

NoRet == [kind |-> "none"]

\* except Exception as e: return f"Error running CloudWatch Logs query: {str(e)}"
QueryErrorText(e) ==
    [kind |-> "text", text |-> "Error running CloudWatch Logs query: " \o e]

\* json.dumps(body, indent=2)
JsonDumps(body) == [kind |-> "json", body |-> body]

LogEntry(op, q, status, error) ==
    [op |-> op, queryId |-> q, status |-> status, error |-> error]

\* (mutant) the failed call is tried again instead of ending the invocation
QueryExceptRetry(c, e) ==
    /\ pc' = pc
    /\ ret' = ret

\* The except clause of the function: whatever was raised ends the call.
QueryExcept(c, e) ==
    /\ pc' = [pc EXCEPT ![c] = "done"]
    /\ ret' = [ret EXCEPT ![c] = QueryErrorText(e)]

\* end_time = int(time.time()); start_time = end_time - hours * 3600;
\* start_query(...); query_id = start_query_response['queryId']; response = None
StartQuery(c, hoursDom) ==
    /\ pc[c] = "start"
    /\ \E hours \in hoursDom :
        LET end_time == clock
            start_time == end_time - (hours * SecondsPerHour)
        IN \/ /\ jobs' = Append(jobs, [status |-> "Scheduled",
                                        startTime |-> start_time,
                                        endTime |-> end_time,
                                        limit |-> QueryLimit])
              /\ query_id' = [query_id EXCEPT ![c] = Len(jobs) + 1]
              /\ response' = [response EXCEPT ![c] = None]
              /\ api_log' = [api_log EXCEPT ![c] =
                    Append(@, LogEntry("start_query", Len(jobs) + 1, "", ""))]
              /\ pc' = [pc EXCEPT ![c] = "poll"]
              /\ UNCHANGED ret
           \/ \E e \in ErrMsgs :
              /\ api_log' = [api_log EXCEPT ![c] =
                    Append(@, LogEntry("start_query", 0, "", e))]
              /\ QueryExcept(c, e)
              /\ UNCHANGED <<jobs, query_id, response>>
    /\ UNCHANGED clock
    /\ UNCHANGED <<cvars, svars>>

\* (mutant) the loop gives up after the first status fetch
LoopContinuesOnce(r) == r = None

\* (mutant) the loop polls until the job is Complete
LoopContinuesUntilComplete(r) ==
    IF r = None THEN TRUE ELSE r["status"] # "Complete"

\* while response is None or response['status'] == 'Running':
LoopContinues(r) == IF r = None THEN TRUE ELSE r["status"] = "Running"

RunningSeen(c) ==
    Cardinality({i \in DOMAIN api_log[c] : api_log[c][i].status = "Running"})

\* (mutant) the id of the query started last, by whichever invocation
PolledJobLatest(c) == Len(jobs)

\* queryId=query_id: the job whose results the invocation asks for
PolledJob(c) == query_id[c]

\* time.sleep(1); response = get_query_results(queryId=query_id)
\* (a job is seen 'Running' at most MaxRunning times by one invocation)
PollQuery(c, completePayloads, otherPayloads) ==
    /\ pc[c] = "poll"
    /\ LoopContinues(response[c])
    /\ jobs[PolledJob(c)].status = "Running" => RunningSeen(c) < MaxRunning
    /\ clock' = clock + SleepSeconds
    /\ LET q == PolledJob(c)
           s == jobs[q].status
       IN \/ /\ \E p \in IF s = "Complete" THEN completePayloads ELSE otherPayloads :
                  response' = [response EXCEPT ![c] =
                      [k \in {"status"} \cup DOMAIN p |->
                          IF k = "status" THEN s ELSE p[k]]]
             /\ api_log' = [api_log EXCEPT ![c] =
                   Append(@, LogEntry("get_query_results", q, s, ""))]
             /\ UNCHANGED <<pc, ret>>
          \/ \E e \in ErrMsgs :
             /\ api_log' = [api_log EXCEPT ![c] =
                   Append(@, LogEntry("get_query_results", q, "", e))]
             /\ QueryExcept(c, e)
             /\ UNCHANGED response
    /\ UNCHANGED <<query_id, jobs>>
    /\ UNCHANGED <<cvars, svars>>

\* (mutant) the first occurrence of a field name is kept
RECURSIVE RowToDictFirstWins(_)
RowToDictFirstWins(row) ==
    IF row = <<>> THEN EmptyDict
    ELSE LET d == RowToDictFirstWins(SubSeq(row, 1, Len(row) - 1))
             f == row[Len(row)]
         IN [k \in DOMAIN d \cup {f.field} |->
                IF k \in DOMAIN d THEN d[k] ELSE f.value]

\* result_dict = {}; for field in result: result_dict[field['field']] = field['value']
RECURSIVE RowToDict(_)
RowToDict(row) ==
    IF row = <<>> THEN EmptyDict
    ELSE LET d == RowToDict(SubSeq(row, 1, Len(row) - 1))
             f == row[Len(row)]
         IN [k \in DOMAIN d \cup {f.field} |->
                IF k = f.field THEN f.value ELSE d[k]]

\* (mutant) the rows come out in reverse order
FormatResultsReversed(r) ==
    LET rows == Get(r, "results", <<>>)
    IN [i \in 1..Len(rows) |-> RowToDict(rows[Len(rows) + 1 - i])]

\* results = []; for result in response.get('results', []): results.append(result_dict)
FormatResults(r) ==
    LET rows == Get(r, "results", <<>>)
    IN [i \in 1..Len(rows) |-> RowToDict(rows[i])]

StatisticNames == {"recordsMatched", "recordsScanned", "bytesScanned"}

\* (mutant) every statistic is read from 'recordsMatched'
StatisticCopied(r, name) ==
    Get(Get(r, "statistics", EmptyDict), "recordsMatched", 0)

\* response.get('statistics', {}).get(name, 0)
Statistic(r, name) == Get(Get(r, "statistics", EmptyDict), name, 0)

\* the branch taken when response['status'] == 'Complete'
CompleteBody(r) ==
    [status |-> "Complete",
     statistics |-> [n \in StatisticNames |-> Statistic(r, n)],
     results |-> FormatResults(r)]

\* (mutant) every unsuccessful end is reported as Failed
IncompleteBodyFixed(r) ==
    [status |-> "Failed", error |-> "Query did not complete successfully"]

\* the else branch
IncompleteBody(r) ==
    [status |-> r["status"], error |-> "Query did not complete successfully"]

\* The statements after the loop: format and return.
ReturnQuery(c) ==
    /\ pc[c] = "poll"
    /\ ~LoopContinues(response[c])
    /\ ret' = [ret EXCEPT ![c] =
          IF response[c]["status"] = "Complete"
          THEN JsonDumps(CompleteBody(response[c]))
          ELSE JsonDumps(IncompleteBody(response[c]))]
    /\ pc' = [pc EXCEPT ![c] = "done"]
    /\ UNCHANGED <<clock, query_id, response, jobs, api_log>>
    /\ UNCHANGED <<cvars, svars>>

----------------------------------------------------------------------------
(* Specifications of the poller *)

\* Neither server.py's module load nor run.py's setup takes part.
NoSetup == [ret |-> "none"]

InitNoConfig ==
    /\ environ = EmptyDict
    /\ proc = [server |-> "off", run |-> "off"]
    /\ AWS_REGION = ""
    /\ boto3_config = None
    /\ cursor_dir = [exists |-> FALSE]
    /\ setup = NoSetup

InitOther ==
    /\ InitNoConfig
    /\ cache = None
    /\ authz = None
    /\ ipc = EmptyDict /\ endpoint = EmptyDict /\ creds = EmptyDict
    /\ acq = EmptyDict /\ out = EmptyDict

InitQueryWith(active) ==
    /\ pc = [c \in Calls |-> IF c \in active THEN "start" ELSE "off"]
    /\ clock = BootTime
    /\ query_id = [c \in Calls |-> 0]
    /\ response = [c \in Calls |-> None]
    /\ ret = [c \in Calls |-> NoRet]
    /\ jobs = <<>>
    /\ api_log = [c \in Calls |-> <<>>]

\* One invocation, every status sequence, every error, a few payloads.
InitQuery == InitQueryWith({"c1"}) /\ InitOther

NextQuery ==
    \/ \E c \in Calls : StartQuery(c, {DefaultHours})
    \/ \E c \in Calls : PollQuery(c, FewPayloads, FewPayloads)
    \/ \E c \in Calls : ReturnQuery(c)
    \/ \E q \in DOMAIN jobs : JobStep(q, Statuses)

SpecQuery == InitQuery /\ [][NextQuery]_vars

\* One invocation whose job completes at once, every result table.
NextRows ==
    \/ \E c \in Calls : StartQuery(c, {DefaultHours})
    \/ \E c \in Calls : PollQuery(c, AllPayloads, {EmptyDict})
    \/ \E c \in Calls : ReturnQuery(c)
    \/ \E q \in DOMAIN jobs : JobStep(q, {"Complete"})

SpecRows == InitQuery /\ [][NextRows]_vars

\* One invocation under fair scheduling: the thread of the invocation keeps
\* running, and the service moves every job on to a terminal status.
SpecQueryFair ==
    /\ InitQuery
    /\ [][NextQuery]_vars
    /\ \A c \in Calls :
          /\ WF_vars(StartQuery(c, {DefaultHours}))
          /\ WF_vars(PollQuery(c, FewPayloads, FewPayloads))
          /\ WF_vars(ReturnQuery(c))
    /\ \A q \in 1..Cardinality(Calls) : WF_vars(JobStep(q, Statuses))

\* Two invocations at the same time, each on its own worker.
InitQueryPair == InitQueryWith(Calls) /\ InitOther

SpecQueryPair == InitQueryPair /\ [][NextQuery]_vars

\* One invocation whose job completes at once, every shape of statistics.
NextStats ==
    \/ \E c \in Calls : StartQuery(c, {DefaultHours})
    \/ \E c \in Calls : PollQuery(c, StatPayloads, {EmptyDict})
    \/ \E c \in Calls : ReturnQuery(c)
    \/ \E q \in DOMAIN jobs : JobStep(q, {"Complete"})

SpecStats == InitQuery /\ [][NextStats]_vars

\* One invocation, the look-back parameter drawn from the integers around 0.
HoursValues == {-1, 0, 1, DefaultHours}

NextRange ==
    \/ \E c \in Calls : StartQuery(c, HoursValues)
    \/ \E c \in Calls : PollQuery(c, FewPayloads, FewPayloads)
    \/ \E c \in Calls : ReturnQuery(c)
    \/ \E q \in DOMAIN jobs : JobStep(q, Statuses)

SpecRange == InitQuery /\ [][NextRange]_vars

----------------------------------------------------------------------------
(* The Google authorization server and token.json *)

Invocations == {"i1", "i2"}

\* A credential: the access token and the refresh token it carries, each
\* named by the number the server issued it under (refresh_token 0: None).
\* Every token.json the program writes carries an access token.
Cred(t, r) == [token |-> t, refresh_token |-> r]

\* token.write(creds.to_json()): what token.json holds of a credential.
ToJson(cr) ==
    [token |-> cr.token, refresh_token |-> cr.refresh_token,
     scopes |-> {"drive.readonly", "spreadsheets"}]

\* Credentials.from_authorized_user_file('token.json', SCOPES)
FromAuthorizedUserFile(file) == Cred(file.token, file.refresh_token)

\* creds.expired: the access token's expiry has passed.
Expired(cr) == cr.token \in authz.expired

\* creds.valid: the credential has a token that is not expired.
Valid(cr) == ~Expired(cr)

\* The token.json files an earlier run may have left, with the server's state.
InitialCaches ==
    {[cache |-> None,
      authz |-> [issued |-> 0, expired |-> {}, grants |-> 0, revoked |-> {}]]}
    \cup
    {[cache |-> ToJson(Cred(1, r)),
      authz |-> [issued |-> 1, expired |-> e, grants |-> 1, revoked |-> v]] :
        r \in {0, 1}, e \in {{}, {1}}, v \in {{}, {1}}}

NoAcq ==
    [result |-> "none", read |-> None, expiredAtCheck |-> FALSE,
     refreshed |-> FALSE, interactive |-> FALSE, rejected |-> FALSE,
     serverCalls |-> 0, wrote |-> FALSE, returnedExpired |-> FALSE,
     cacheBefore |-> None, cacheAfter |-> None, returned |-> None]

NoOut == [delivered |-> [kind |-> "none"], cause |-> ""]

\* An access token obtained by a call that has not returned yet.
FreshInCall(t) ==
    \E i \in Invocations :
        /\ ipc[i] \in {"write", "return"}
        /\ creds[i] # None
        /\ creds[i].token = t

\* Time passes: an access token reaches its expiry.  A token lives far longer
\* than the call that obtained it.
ExpireToken ==
    /\ \E t \in 1..authz.issued :
          /\ t \notin authz.expired
          /\ ~FreshInCall(t)
          /\ authz' = [authz EXCEPT !.expired = @ \cup {t}]
    /\ UNCHANGED <<cache, ipc, endpoint, creds, acq, out>>
    /\ UNCHANGED <<qvars, svars>>

\* The user or the server revokes a grant: its refresh token is rejected.
RevokeGrant ==
    /\ \E g \in 1..authz.grants :
          /\ g \notin authz.revoked
          /\ authz' = [authz EXCEPT !.revoked = @ \cup {g}]
    /\ UNCHANGED <<cache, ipc, endpoint, creds, acq, out>>
    /\ UNCHANGED <<qvars, svars>>

----------------------------------------------------------------------------
(* The endpoints of both servers *)

GdriveEndpoints ==
    {"gdrive_search", "gdrive_read_file", "gsheets_read", "gsheets_update_cell"}

\* The tools and resources of server.py, each with the text its except
\* clause puts before str(e).
AwsErrorPrefix ==
    [s3_resource |-> "Error accessing S3: ",
     list_s3_buckets |-> "Error listing S3 buckets: ",
     list_s3_objects |-> "Error listing S3 objects: ",
     get_s3_object_info |-> "Error getting S3 object info: ",
     dynamodb_resource |-> "Error accessing DynamoDB: ",
     list_dynamodb_tables |-> "Error listing DynamoDB tables: ",
     query_dynamodb |-> "Error querying DynamoDB: ",
     describe_dynamodb_table |-> "Error describing DynamoDB table: ",
     cloudwatch_resource |-> "Error accessing CloudWatch metrics: ",
     list_cloudwatch_metrics |-> "Error listing CloudWatch metrics: ",
     get_cloudwatch_alarms |-> "Error getting CloudWatch alarms: ",
     lambda_resource |-> "Error accessing Lambda function: ",
     list_lambda_functions |-> "Error listing Lambda functions: ",
     get_lambda_invocations |-> "Error getting Lambda invocations: ",
     ec2_resource |-> "Error accessing EC2 instance: ",
     list_ec2_instances |-> "Error listing EC2 instances: ",
     get_ec2_status |-> "Error getting EC2 status: ",
     iam_role_resource |-> "Error accessing IAM role: ",
     list_iam_roles |-> "Error listing IAM roles: ",
     list_iam_policies |-> "Error listing IAM policies: ",
     list_cloudwatch_log_groups |-> "Error listing CloudWatch log groups: "]

AwsEndpoints == DOMAIN AwsErrorPrefix

ApiErrors == {"HttpError 403", "ClientError AccessDenied"}

HttpErrorStatus == 500

\* (mutant) every endpoint returns the error as text
EndpointFailureAllText(e, msg) ==
    [kind |-> "text", text |-> "Error: " \o msg]

\* What an endpoint's `except Exception as e` makes of a failure with message
\* msg: the AWS tools return a text, the gdrive endpoints raise HTTPException.
EndpointFailure(e, msg) ==
    IF e \in GdriveEndpoints
    THEN [kind |-> "raised", exception |-> "HTTPException",
          status_code |-> HttpErrorStatus, detail |-> msg]
    ELSE [kind |-> "text", text |-> AwsErrorPrefix[e] \o msg]

\* The except clause of endpoint invocation i.
EndpointExcept(i, msg) ==
    /\ out' = [out EXCEPT ![i] =
          [delivered |-> EndpointFailure(endpoint[i], msg), cause |-> msg]]
    /\ ipc' = [ipc EXCEPT ![i] = "done"]

\* (mutant) the event loop takes up a request while it serves another
RequestsOverlap == TRUE

\* uvicorn.run(app): one event loop serves the requests, and it takes up the
\* next only when the coroutine it runs awaits or ends.
NoRequestInProgress == \A j \in Invocations : ipc[j] \in {"idle", "done"}

\* A request arrives.  With `serial` no other request is in progress: the
\* gdrive endpoints are coroutines that never await, so the event loop runs
\* each to its end before the next.
Invoke(i, endpoints, serial) ==
    /\ ipc[i] = "idle"
    /\ serial => NoRequestInProgress
    /\ \E e \in endpoints :
          /\ endpoint' = [endpoint EXCEPT ![i] = e]
          /\ ipc' = [ipc EXCEPT ![i] =
                IF e \in GdriveEndpoints THEN "read" ELSE "call"]
    /\ UNCHANGED <<cache, authz, creds, acq, out>>
    /\ UNCHANGED <<qvars, svars>>

\* The external call(s) of the try body and the return of their result.
CallApi(i) ==
    /\ ipc[i] = "call"
    /\ \/ /\ out' = [out EXCEPT ![i] =
                [delivered |-> [kind |-> "result"], cause |-> ""]]
          /\ ipc' = [ipc EXCEPT ![i] = "done"]
       \/ \E msg \in ApiErrors : EndpointExcept(i, msg)
    /\ UNCHANGED <<cache, authz, endpoint, creds, acq>>
    /\ UNCHANGED <<qvars, svars>>

----------------------------------------------------------------------------
(* get_google_credentials *)

\* creds = None; if os.path.exists('token.json'): creds = from_authorized_user_file
ReadToken(i) ==
    /\ ipc[i] = "read"
    /\ LET cr == IF cache = None THEN None ELSE FromAuthorizedUserFile(cache)
       IN /\ creds' = [creds EXCEPT ![i] = cr]
          /\ acq' = [acq EXCEPT ![i] =
                [NoAcq EXCEPT !.read = cr, !.cacheBefore = cache]]
    /\ ipc' = [ipc EXCEPT ![i] = "check"]
    /\ UNCHANGED <<cache, authz, endpoint, out>>
    /\ UNCHANGED <<qvars, svars>>

\* (mutant) a new credential is obtained on every call
NeedsNewCredsAlways(cr) == TRUE

\* (mutant) only a missing token.json leads to a new credential
NeedsNewCredsOnlyMissing(cr) == cr = None

\* if not creds or not creds.valid:
NeedsNewCreds(cr) == IF cr = None THEN TRUE ELSE ~Valid(cr)

\* if creds and creds.expired and creds.refresh_token:
CanRefresh(cr) ==
    IF cr = None THEN FALSE ELSE Expired(cr) /\ cr.refresh_token # 0

\* What this call saw of the credential it read, at line 26.
Observed(i) ==
    [acq[i] EXCEPT !.expiredAtCheck =
        IF creds[i] = None THEN FALSE ELSE creds[i].token \in authz.expired]

\* An exception leaves get_google_credentials (it has no handler) and reaches
\* the except clause of the endpoint that called it.
AcquireRaises(i, a, msg) ==
    /\ acq' = [acq EXCEPT ![i] =
          [a EXCEPT !.result = "raised", !.cacheAfter = cache]]
    /\ EndpointExcept(i, msg)
    /\ UNCHANGED <<cache, authz, creds>>

\* flow = InstalledAppFlow.from_client_secrets_file(...);
\* creds = flow.run_local_server(port=0)
InteractiveFlow(i, a) ==
    \/ \E r \in {0, authz.grants + 1} :
          /\ authz' = [authz EXCEPT !.issued = @ + 1,
                                    !.grants = IF r = 0 THEN @ ELSE r]
          /\ creds' = [creds EXCEPT ![i] = Cred(authz.issued + 1, r)]
          /\ acq' = [acq EXCEPT ![i] = [a EXCEPT !.interactive = TRUE]]
          /\ ipc' = [ipc EXCEPT ![i] = "write"]
          /\ UNCHANGED <<cache, out>>
    \/ AcquireRaises(i, [a EXCEPT !.interactive = TRUE], "access_denied")

\* (mutant) a rejected refresh falls back to the interactive flow
RefreshRejectedFallsBack(i, a) == InteractiveFlow(i, a)

\* creds.refresh(Request()) raises RefreshError: the server rejected the
\* refresh token.
RefreshRejected(i, a) == AcquireRaises(i, a, "invalid_grant")

\* creds.refresh(Request())
Refresh(i, a) ==
    LET cr == creds[i]
        asked == [a EXCEPT !.serverCalls = @ + 1]
    IN \/ /\ cr.refresh_token \notin authz.revoked
          /\ authz' = [authz EXCEPT !.issued = @ + 1]
          /\ creds' = [creds EXCEPT ![i] =
                Cred(authz.issued + 1, cr.refresh_token)]
          /\ acq' = [acq EXCEPT ![i] = [asked EXCEPT !.refreshed = TRUE]]
          /\ ipc' = [ipc EXCEPT ![i] = "write"]
          /\ UNCHANGED <<cache, out>>
       \/ /\ cr.refresh_token \in authz.revoked
          /\ RefreshRejected(i, [asked EXCEPT !.rejected = TRUE])
       \/ AcquireRaises(i, asked, "TransportError")

\* Lines 26-32: decide whether the credential read is handed out as it is,
\* refreshed, or replaced by an interactive authorization.
CheckCreds(i) ==
    /\ ipc[i] = "check"
    /\ IF ~NeedsNewCreds(creds[i])
       THEN /\ acq' = [acq EXCEPT ![i] = Observed(i)]
            /\ ipc' = [ipc EXCEPT ![i] = "return"]
            /\ UNCHANGED <<cache, authz, creds, out>>
       ELSE IF CanRefresh(creds[i])
            THEN Refresh(i, Observed(i))
            ELSE InteractiveFlow(i, Observed(i))
    /\ UNCHANGED endpoint
    /\ UNCHANGED <<qvars, svars>>

\* (mutant) token.json is created once and never overwritten
TokenFileKeptIfPresent(old, cr) == IF old = None THEN ToJson(cr) ELSE old

\* with open('token.json', 'w') as token: token.write(creds.to_json())
TokenFileAfterWrite(old, cr) == ToJson(cr)

WriteToken(i) ==
    /\ ipc[i] = "write"
    /\ cache' = TokenFileAfterWrite(cache, creds[i])
    /\ acq' = [acq EXCEPT ![i].wrote = TRUE]
    /\ ipc' = [ipc EXCEPT ![i] = "return"]
    /\ UNCHANGED <<authz, endpoint, creds, out>>
    /\ UNCHANGED <<qvars, svars>>

\* return creds; the endpoint goes on to build the service and call it
ReturnCreds(i) ==
    /\ ipc[i] = "return"
    /\ acq' = [acq EXCEPT ![i] =
          [@ EXCEPT !.result = "returned", !.returned = creds[i],
                    !.returnedExpired = Expired(creds[i]),
                    !.cacheAfter = cache]]
    /\ ipc' = [ipc EXCEPT ![i] = "call"]
    /\ UNCHANGED <<cache, authz, endpoint, creds, out>>
    /\ UNCHANGED <<qvars, svars>>

----------------------------------------------------------------------------
(* Specification of the endpoints and the credential cache *)

InitEndpoints ==
    /\ \E c \in InitialCaches : cache = c.cache /\ authz = c.authz
    /\ ipc = [i \in Invocations |-> "idle"]
    /\ endpoint = [i \in Invocations |-> ""]
    /\ creds = [i \in Invocations |-> None]
    /\ acq = [i \in Invocations |-> NoAcq]
    /\ out = [i \in Invocations |-> NoOut]
    /\ InitQueryWith({})
    /\ InitNoConfig

\* Requests are served one after the other.
NextEndpoints ==
    \/ \E i \in Invocations : Invoke(i, GdriveEndpoints \cup AwsEndpoints, TRUE)
    \/ \E i \in Invocations : ReadToken(i)
    \/ \E i \in Invocations : CheckCreds(i)
    \/ \E i \in Invocations : WriteToken(i)
    \/ \E i \in Invocations : ReturnCreds(i)
    \/ \E i \in Invocations : CallApi(i)
    \/ ExpireToken
    \/ RevokeGrant

SpecEndpoints == InitEndpoints /\ [][NextEndpoints]_vars

\* Two gdrive_search requests.  A request that arrived is served, and every
\* step of the coroutine that serves it is taken; tokens expire and grants are
\* revoked at any time, or never.
NextAcquire ==
    \/ \E i \in Invocations : Invoke(i, {"gdrive_search"}, TRUE)
    \/ \E i \in Invocations : ReadToken(i)
    \/ \E i \in Invocations : CheckCreds(i)
    \/ \E i \in Invocations : WriteToken(i)
    \/ \E i \in Invocations : ReturnCreds(i)
    \/ \E i \in Invocations : CallApi(i)
    \/ ExpireToken
    \/ RevokeGrant

SpecAcquire ==
    /\ InitEndpoints
    /\ [][NextAcquire]_vars
    /\ \A i \in Invocations :
          /\ WF_vars(Invoke(i, {"gdrive_search"}, TRUE))
          /\ WF_vars(ReadToken(i))
          /\ WF_vars(CheckCreds(i))
          /\ WF_vars(WriteToken(i))
          /\ WF_vars(ReturnCreds(i))
          /\ WF_vars(CallApi(i))

----------------------------------------------------------------------------
(* list_s3_objects and cloudwatch_resource *)

S3Objects == [Key : {"a", "b"}, Size : {1}]

\* list_objects_v2 responses: 'Contents' is absent when nothing matches.
S3Listings ==
    {EmptyDict} \cup {[Contents |-> l] : l \in SeqsUpTo(S3Objects, MaxObjects)}

\* (mutant) every key is listed once
RECURSIVE ObjectKeysDistinct(_)
ObjectKeysDistinct(resp) ==
    LET contents == Get(resp, "Contents", <<>>)
    IN IF contents = <<>> THEN <<>>
       ELSE LET front == ObjectKeysDistinct(
                    [Contents |-> SubSeq(contents, 1, Len(contents) - 1)])
                key == contents[Len(contents)].Key
            IN IF \E k \in DOMAIN front : front[k] = key
               THEN front ELSE Append(front, key)

\* objects = [obj['Key'] for obj in response.get('Contents', [])]
ObjectKeys(resp) ==
    LET contents == Get(resp, "Contents", <<>>)
    IN [k \in 1..Len(contents) |-> contents[k].Key]

\* list_s3_objects: the whole try body and its except clause.
ListS3Objects(i, responses) ==
    /\ ipc[i] = "call"
    /\ endpoint[i] = "list_s3_objects"
    /\ \/ \E resp \in responses :
             /\ out' = [out EXCEPT ![i] =
                   [delivered |-> JsonDumps(ObjectKeys(resp)), cause |-> "",
                    response |-> resp]]
             /\ ipc' = [ipc EXCEPT ![i] = "done"]
       \/ \E msg \in ApiErrors : EndpointExcept(i, msg)
    /\ UNCHANGED <<cache, authz, endpoint, creds, acq>>
    /\ UNCHANGED <<qvars, svars>>

TimeStamps == {1, 2, 3}

Datapoints ==
    [Timestamp : TimeStamps, Average : {1, 2}, Maximum : {9}, Minimum : {0},
     Unit : {"Count"}]

\* get_metric_statistics responses
MetricResponses ==
    {EmptyDict} \cup {[Datapoints |-> l] : l \in SeqsUpTo(Datapoints, MaxPoints)}

\* The period strings of the resource URI and int(period).
PeriodStrings == {"5", "60", "five"}
IsIntLiteral(str) == str \in {"5", "60"}
IntOf(str) == IF str = "5" THEN 5 ELSE 60

MinuteSeconds == 60

\* point['Timestamp'].strftime('%Y-%m-%d %H:%M:%S'), for a timestamp given in
\* seconds after 1970-01-01 00:00:00 (below ten)
Strftime(t) == "1970-01-01 00:00:0" \o ToString(t)

\* sorted() is stable: p goes behind every point that is not later than it.
InsertByTimestamp(sq, p) ==
    LET k == Cardinality({j \in DOMAIN sq : sq[j].Timestamp <= p.Timestamp})
    IN SubSeq(sq, 1, k) \o <<p>> \o SubSeq(sq, k + 1, Len(sq))

RECURSIVE SortByTimestampRec(_)
SortByTimestampRec(points) ==
    IF points = <<>> THEN <<>>
    ELSE InsertByTimestamp(SortByTimestampRec(SubSeq(points, 1, Len(points) - 1)),
                           points[Len(points)])

\* (mutant) the datapoints are left in the provider's order
SortByTimestampOmitted(points) == points

\* sorted(datapoints, key=lambda x: x['Timestamp'])
SortByTimestamp(points) == SortByTimestampRec(points)

FormatPoint(p) ==
    [Timestamp |-> Strftime(p.Timestamp),
     Average |-> Get(p, "Average", None),
     Maximum |-> Get(p, "Maximum", None),
     Minimum |-> Get(p, "Minimum", None),
     Unit |-> Get(p, "Unit", None)]

\* datapoints = response.get('Datapoints', []); sort; format each point
FormatDatapoints(resp) ==
    LET sorted == SortByTimestamp(Get(resp, "Datapoints", <<>>))
    IN [k \in 1..Len(sorted) |-> FormatPoint(sorted[k])]

\* cloudwatch_resource: the whole try body and its except clause.
CloudwatchResource(i, periods, responses) ==
    /\ ipc[i] = "call"
    /\ endpoint[i] = "cloudwatch_resource"
    /\ \E period \in periods :
          IF ~IsIntLiteral(period)
          THEN EndpointExcept(i, "invalid literal for int() with base 10")
          ELSE \/ \E resp \in responses :
                    /\ out' = [out EXCEPT ![i] =
                          [delivered |-> JsonDumps(FormatDatapoints(resp)),
                           cause |-> "",
                           request |-> [Period |-> IntOf(period) * MinuteSeconds],
                           response |-> resp]]
                    /\ ipc' = [ipc EXCEPT ![i] = "done"]
               \/ \E msg \in ApiErrors : EndpointExcept(i, msg)
    /\ UNCHANGED <<cache, authz, endpoint, creds, acq>>
    /\ UNCHANGED <<qvars, svars>>

\* One invocation of either operation, every provider response.
InitTools ==
    /\ cache = None
    /\ authz = [issued |-> 0, expired |-> {}, grants |-> 0, revoked |-> {}]
    /\ ipc = [i \in Invocations |-> IF i = "i1" THEN "idle" ELSE "off"]
    /\ endpoint = [i \in Invocations |-> ""]
    /\ creds = [i \in Invocations |-> None]
    /\ acq = [i \in Invocations |-> NoAcq]
    /\ out = [i \in Invocations |-> NoOut]
    /\ InitQueryWith({})
    /\ InitNoConfig

NextTools ==
    \/ \E i \in Invocations :
          Invoke(i, {"list_s3_objects", "cloudwatch_resource"}, FALSE)
    \/ \E i \in Invocations : ListS3Objects(i, S3Listings)
    \/ \E i \in Invocations : CloudwatchResource(i, PeriodStrings, MetricResponses)

SpecTools == InitTools /\ [][NextTools]_vars

----------------------------------------------------------------------------
(* The process environment: server.py's module load, run.py's cursor setup *)

EnvNames ==
    {"AWS_ACCESS_KEY_ID", "AWS_SECRET_ACCESS_KEY", "AWS_SESSION_TOKEN",
     "AWS_DEFAULT_REGION"}

\* A variable that is set is set to the empty string or to a value.
EnvValues(name) ==
    IF name = "AWS_DEFAULT_REGION" THEN {"", "ap-south-1"}
    ELSE IF name = "AWS_ACCESS_KEY_ID" THEN {"", "AKIA1"}
    ELSE IF name = "AWS_SECRET_ACCESS_KEY" THEN {"", "secret1"}
    ELSE {"", "token1"}

\* os.environ: any of the four variables set or not.
Environments ==
    UNION {{f \in [D -> UNION {EnvValues(n) : n \in EnvNames}] :
                \A n \in D : f[n] \in EnvValues(n)} : D \in SUBSET EnvNames}

\* `if d.get(name):` a variable that is not set, or set to '', is false.
Truthy(d, name) == IF name \in DOMAIN d THEN d[name] # "" ELSE FALSE

DefaultRegion == "us-east-1"

\* (mutant) the session token is added whether or not the key pair is there
Boto3ConfigTokenAlone(env) ==
    LET pair == IF Truthy(env, "AWS_ACCESS_KEY_ID")
                   /\ Truthy(env, "AWS_SECRET_ACCESS_KEY")
                THEN [aws_access_key_id |-> env["AWS_ACCESS_KEY_ID"],
                      aws_secret_access_key |-> env["AWS_SECRET_ACCESS_KEY"]]
                ELSE EmptyDict
    IN IF Truthy(env, "AWS_SESSION_TOKEN")
       THEN ("aws_session_token" :> env["AWS_SESSION_TOKEN"]) @@ pair
       ELSE pair

\* boto3_config = {}; if key and secret: update both; if token: update token
Boto3Config(env) ==
    IF Truthy(env, "AWS_ACCESS_KEY_ID") /\ Truthy(env, "AWS_SECRET_ACCESS_KEY")
    THEN LET pair == [aws_access_key_id |-> env["AWS_ACCESS_KEY_ID"],
                      aws_secret_access_key |-> env["AWS_SECRET_ACCESS_KEY"]]
         IN IF Truthy(env, "AWS_SESSION_TOKEN")
            THEN ("aws_session_token" :> env["AWS_SESSION_TOKEN"]) @@ pair
            ELSE pair
    ELSE EmptyDict

\* server.py is imported: lines 18-40.
LoadServerModule ==
    /\ proc.server = "start"
    /\ AWS_REGION' = Get(environ, "AWS_DEFAULT_REGION", DefaultRegion)
    /\ boto3_config' = Boto3Config(environ)
    /\ proc' = [proc EXCEPT !.server = "loaded"]
    /\ UNCHANGED <<environ, cursor_dir, setup>>
    /\ UNCHANGED <<qvars, cvars>>

\* The assignments an env file may hold.
EnvFileLines ==
    {[key |-> "AWS_DEFAULT_REGION", value |-> "eu-west-1"],
     [key |-> "AWS_ACCESS_KEY_ID", value |-> "AKIA2"],
     [key |-> "LOG_LEVEL", value |-> "debug"]}

\* --env-file: not given, a path that does not exist, or a file.
EnvFiles ==
    {[given |-> FALSE, exists |-> FALSE, lines |-> <<>>],
     [given |-> TRUE, exists |-> FALSE, lines |-> <<>>]}
    \cup {[given |-> TRUE, exists |-> TRUE, lines |-> l] :
            l \in SeqsUpTo(EnvFileLines, MaxLines)}

\* dotenv_values(path): one entry per key, a later assignment replaces an
\* earlier one; the manual parse that replaces an empty result does the same.
RECURSIVE DotenvValues(_)
DotenvValues(lines) ==
    IF lines = <<>> THEN EmptyDict
    ELSE LET l == lines[Len(lines)]
         IN (l.key :> l.value) @@ DotenvValues(SubSeq(lines, 1, Len(lines) - 1))

\* load_env_file(env_file_path)
LoadEnvFile(f) ==
    IF ~f.given \/ ~f.exists THEN EmptyDict ELSE DotenvValues(f.lines)

\* if name not in env_vars and os.environ.get(name): env_vars[name] = ...
WithCredential(env_vars, env, name) ==
    IF name \notin DOMAIN env_vars /\ Truthy(env, name)
    THEN (name :> env[name]) @@ env_vars
    ELSE env_vars

\* if "AWS_DEFAULT_REGION" not in env_vars and os.environ.get(...): take the
\* environment's; else: env_vars["AWS_DEFAULT_REGION"] = "us-east-1"
WithRegion(env_vars, env) ==
    IF "AWS_DEFAULT_REGION" \notin DOMAIN env_vars
       /\ Truthy(env, "AWS_DEFAULT_REGION")
    THEN ("AWS_DEFAULT_REGION" :> env["AWS_DEFAULT_REGION"]) @@ env_vars
    ELSE ("AWS_DEFAULT_REGION" :> DefaultRegion) @@ env_vars

\* Lines 149-161: the env of the server entry.
EnvVars(f, env) ==
    LET loaded == IF f.given THEN LoadEnvFile(f) ELSE EmptyDict
        keyed == WithCredential(loaded, env, "AWS_ACCESS_KEY_ID")
        secreted == WithCredential(keyed, env, "AWS_SECRET_ACCESS_KEY")
    IN WithRegion(secreted, env)

ServerKey(advanced) ==
    IF advanced THEN "aws-advanced-server" ELSE "aws-basic-server"

ServerEntry(advanced, env_vars) ==
    [name |-> IF advanced THEN "Advanced AWS Integration Server"
              ELSE "AWS Integration Server",
     command |-> "python",
     args |-> <<IF advanced THEN "advanced_server.py" ELSE "server.py">>,
     env |-> env_vars]

DefaultConfig == [mcpServers |-> EmptyDict]

\* ~/.cursor/mcp.json as the setup may find it.
McpJsonFiles ==
    {[exists |-> FALSE, valid |-> FALSE, config |-> EmptyDict],
     [exists |-> TRUE, valid |-> FALSE, config |-> EmptyDict],
     [exists |-> TRUE, valid |-> TRUE, config |-> EmptyDict],
     [exists |-> TRUE, valid |-> TRUE, config |-> DefaultConfig],
     [exists |-> TRUE, valid |-> TRUE,
      config |-> [mcpServers |->
          ("aws-basic-server" :>
              ServerEntry(FALSE, [AWS_DEFAULT_REGION |-> "sa-east-1"]))]]}

CursorDirs ==
    {[exists |-> FALSE]} \cup
    {[exists |-> TRUE, mcp_json |-> f] : f \in McpJsonFiles}

\* setup_cursor_mcp(advanced, env_file), from its entry to its return.
SetupCursorMcp(envFiles) ==
    /\ proc.run = "start"
    /\ \E advanced \in BOOLEAN, f \in envFiles :
          LET call == [ret |-> "False", advanced |-> advanced, env_file |-> f]
          IN IF ~cursor_dir.exists
             THEN setup' = call /\ UNCHANGED cursor_dir
             ELSE LET found == IF cursor_dir.mcp_json.exists
                               THEN cursor_dir.mcp_json
                               ELSE [exists |-> TRUE, valid |-> TRUE,
                                     config |-> DefaultConfig]
                  IN IF ~found.valid
                     THEN /\ setup' = call
                          /\ cursor_dir' = [cursor_dir EXCEPT !.mcp_json = found]
                     ELSE LET config ==
                                 IF "mcpServers" \in DOMAIN found.config
                                 THEN found.config
                                 ELSE ("mcpServers" :> EmptyDict) @@ found.config
                              entry == ServerEntry(advanced, EnvVars(f, environ))
                              servers == (ServerKey(advanced) :> entry)
                                            @@ config["mcpServers"]
                          IN /\ cursor_dir' = [cursor_dir EXCEPT !.mcp_json =
                                   [exists |-> TRUE, valid |-> TRUE,
                                    config |-> ("mcpServers" :> servers) @@ config]]
                             /\ setup' = [call EXCEPT !.ret = "True"]
    /\ proc' = [proc EXCEPT !.run = "done"]
    /\ UNCHANGED <<environ, AWS_REGION, boto3_config>>
    /\ UNCHANGED <<qvars, cvars>>

\* Every process environment, every ~/.cursor, every env file.
InitConfig ==
    /\ environ \in Environments
    /\ proc = [server |-> "start", run |-> "start"]
    /\ AWS_REGION = ""
    /\ boto3_config = None
    /\ cursor_dir \in CursorDirs
    /\ setup = NoSetup
    /\ InitQueryWith({})
    /\ cache = None
    /\ authz = None
    /\ ipc = EmptyDict /\ endpoint = EmptyDict /\ creds = EmptyDict
    /\ acq = EmptyDict /\ out = EmptyDict

NextConfig ==
    \/ LoadServerModule
    \/ SetupCursorMcp(EnvFiles)

SpecConfig == InitConfig /\ [][NextConfig]_vars

----------------------------------------------------------------------------
(* Properties of the poller *)

Log(c) == api_log[c]

\* The invocation's loop ended on an observed status (no call raised).
LoopEnded(c) ==
    /\ pc[c] = "done"
    /\ Len(Log(c)) >= 2
    /\ Log(c)[Len(Log(c))].error = ""

LastStatus(c) == Log(c)[Len(Log(c))].status

\* C1: k 'Running' observations followed by one other observation make
\* run_cloudwatch_logs_query issue exactly one start_query and exactly k+1
\* get_query_results calls: the only submission is the first call, every
\* status fetch that is followed by another call observed 'Running', and the
\* invocation returns right after the first observation that is not 'Running'.
C1_OneSubmitKPlusOneFetches ==
    \A c \in Calls :
        /\ \A i \in DOMAIN Log(c) : (i = 1) <=> (Log(c)[i].op = "start_query")
        /\ \A i \in DOMAIN Log(c) :
              (1 < i /\ i < Len(Log(c))) => Log(c)[i].status = "Running"
        /\ LoopEnded(c) =>
              /\ LastStatus(c) # "Running"
              /\ Len(Log(c)) = 1 + (RunningSeen(c) + 1)
        /\ (pc[c] = "poll" /\ ~LoopContinues(response[c])) =>
              /\ Log(c)[Len(Log(c))].status = response[c]["status"]
              /\ Len(Log(c)) = 1 + (RunningSeen(c) + 1)

\* Running, Running, Failed: returned after exactly 3 status fetches.
C1_Witness ==
    \E c \in Calls :
        /\ LoopEnded(c)
        /\ Len(Log(c)) = 4
        /\ Log(c)[2].status = "Running" /\ Log(c)[3].status = "Running"
        /\ Log(c)[4].status = "Failed"

\* The rows of the response the loop ended on (response.get('results', [])).
ServiceRows(c) ==
    IF "results" \in DOMAIN response[c] THEN response[c]["results"] ELSE <<>>

FieldsOf(row) == {row[j].field : j \in DOMAIN row}

\* C6: on 'Complete' the result holds one mapping per row of the service
\* response, in the same order and of the same count, the keys of each mapping
\* being exactly the field names of its row and each value a value the row
\* gives for that field.
C6_OneMappingPerRow ==
    \A c \in Calls :
        (LoopEnded(c) /\ LastStatus(c) = "Complete") =>
            /\ ret[c].kind = "json"
            /\ ret[c].body.status = "Complete"
            /\ LET rows == ServiceRows(c)
                   res == ret[c].body.results
               IN /\ Len(res) = Len(rows)
                  /\ \A i \in 1..Len(rows) :
                        /\ DOMAIN res[i] = FieldsOf(rows[i])
                        /\ \A k \in DOMAIN res[i] :
                              \E j \in DOMAIN rows[i] :
                                  /\ rows[i][j].field = k
                                  /\ rows[i][j].value = res[i][k]

\* Two rows with different field names, returned in the service's order.
C6_Witness ==
    \E c \in Calls :
        /\ LoopEnded(c) /\ LastStatus(c) = "Complete"
        /\ ServiceRows(c) = << <<[field |-> "x", value |-> "1"],
                                 [field |-> "y", value |-> "2"]>>,
                               <<[field |-> "y", value |-> "1"]>> >>
        /\ Len(ret[c].body.results) = 2

\* C7: a field name that occurs more than once in a row maps to the value of
\* its last occurrence.
C7_LastWriteWins ==
    \A c \in Calls :
        (LoopEnded(c) /\ LastStatus(c) = "Complete") =>
            LET rows == ServiceRows(c)
                res == ret[c].body.results
            IN \A i \in 1..Len(rows) : \A j \in DOMAIN rows[i] :
                  (\A j2 \in DOMAIN rows[i] :
                        j2 > j => rows[i][j2].field # rows[i][j].field)
                  => res[i][rows[i][j].field] = rows[i][j].value

\* [("x","1"),("x","2")] collapses to {"x": "2"}.
C7_Witness ==
    \E c \in Calls :
        /\ LoopEnded(c) /\ LastStatus(c) = "Complete"
        /\ ServiceRows(c) = << <<[field |-> "x", value |-> "1"],
                                 [field |-> "x", value |-> "2"]>> >>
        /\ ret[c].body.results[1]["x"] = "2"

\* C8: when the loop ends on a status other than 'Complete' the invocation
\* returns a JSON object of exactly two members, the observed status and the
\* marker 'Query did not complete successfully' (no results, no statistics),
\* after a single submission.
C8_IncompleteReported ==
    \A c \in Calls :
        (LoopEnded(c) /\ LastStatus(c) # "Complete") =>
            /\ ret[c].kind = "json"
            /\ DOMAIN ret[c].body = {"status", "error"}
            /\ ret[c].body.status = LastStatus(c)
            /\ ret[c].body.error = "Query did not complete successfully"
            /\ Cardinality({i \in DOMAIN Log(c) : Log(c)[i].op = "start_query"}) = 1

\* A job that was cancelled while the response carried rows.
C8_Witness ==
    \E c \in Calls :
        /\ LoopEnded(c) /\ LastStatus(c) = "Cancelled"
        /\ "results" \in DOMAIN response[c]
        /\ ret[c].body.status = "Cancelled"

\* C9: an error raised by start_query or by a get_query_results call is the
\* last call the invocation makes (none after a failed submission, none after
\* the failed fetch) and the invocation has returned the error text carrying
\* the message of that error.
C9_ErrorSurfacedAtOnce ==
    \A c \in Calls : \A i \in DOMAIN Log(c) :
        Log(c)[i].error # "" =>
            /\ i = Len(Log(c))
            /\ pc[c] = "done"
            /\ ret[c] = [kind |-> "text",
                         text |-> "Error running CloudWatch Logs query: "
                                    \o Log(c)[i].error]

\* An error at the second status fetch, after one 'Running' observation.
C9_Witness ==
    \E c \in Calls :
        /\ pc[c] = "done"
        /\ Len(Log(c)) = 3
        /\ Log(c)[2].status = "Running"
        /\ Log(c)[3].error = "ThrottlingException"
        /\ ret[c].kind = "text"

----------------------------------------------------------------------------
(* Properties of get_google_credentials and of the endpoints *)

\* The call of invocation i found a cached credential that was unexpired.
FoundUnexpired(i) ==
    /\ acq[i].result # "none"
    /\ acq[i].read # None
    /\ ~acq[i].expiredAtCheck

\* C2: a call that finds a cached, unexpired credential returns that
\* credential unchanged, asks the authorization server nothing, starts no
\* interactive flow and does not write token.json.
C2_UnexpiredReturnedUnchanged ==
    \A i \in Invocations :
        FoundUnexpired(i) =>
            /\ acq[i].result = "returned"
            /\ acq[i].returned = acq[i].read
            /\ acq[i].serverCalls = 0
            /\ ~acq[i].refreshed
            /\ ~acq[i].interactive
            /\ ~acq[i].wrote
            /\ acq[i].cacheAfter = acq[i].cacheBefore

\* A second request that finds the credential the first one obtained.
C2_Witness ==
    /\ FoundUnexpired("i2")
    /\ acq["i1"].interactive /\ acq["i1"].result = "returned"
    /\ acq["i2"].returned = acq["i1"].returned
    /\ ipc["i2"] = "done"

\* The call of invocation i returned a credential it obtained itself.
ReturnedNew(i) ==
    /\ acq[i].result = "returned"
    /\ acq[i].refreshed \/ acq[i].interactive

\* C3: a credential obtained by a successful refresh or a successful
\* interactive authorization is unexpired when it is returned, and on return
\* token.json holds exactly that credential, whatever it held before.
C3_NewCredentialPersisted ==
    \A i \in Invocations :
        ReturnedNew(i) =>
            /\ ~acq[i].returnedExpired
            /\ acq[i].wrote
            /\ acq[i].cacheAfter # None
            /\ acq[i].cacheAfter = ToJson(acq[i].returned)
            /\ FromAuthorizedUserFile(acq[i].cacheAfter) = acq[i].returned

\* An expired cached credential refreshed: the file's old value is replaced.
C3_Witness ==
    \E i \in Invocations :
        /\ ReturnedNew(i) /\ acq[i].refreshed
        /\ acq[i].cacheBefore # None
        /\ acq[i].cacheAfter # acq[i].cacheBefore

\* C4: when the cached credential is expired and the server rejects its
\* refresh token, the call raises, returns no credential, starts no
\* interactive flow and leaves token.json as it was before the call.
C4_RejectedRefreshRaises ==
    \A i \in Invocations :
        acq[i].rejected =>
            /\ acq[i].result = "raised"
            /\ acq[i].returned = None
            /\ ~acq[i].interactive
            /\ ~acq[i].wrote
            /\ acq[i].cacheAfter = acq[i].cacheBefore
            /\ acq[i].serverCalls = 1
            /\ out[i].cause = "invalid_grant"

\* A revoked grant: the refresh of the expired cached credential is rejected.
C4_Witness ==
    \E i \in Invocations :
        /\ acq[i].rejected
        /\ acq[i].expiredAtCheck
        /\ acq[i].read.refresh_token \in authz.revoked
        /\ cache = acq[i].cacheBefore

\* C5: a credential handed to a caller was unexpired when the call checked
\* the cached one, or was obtained within that call; a cached credential seen
\* to be expired is never the one returned.
C5_NeverKnowinglyStale ==
    \A i \in Invocations :
        acq[i].result = "returned" =>
            /\ \/ acq[i].returned = acq[i].read /\ ~acq[i].expiredAtCheck
               \/ /\ acq[i].refreshed \/ acq[i].interactive
                  /\ acq[i].returned # acq[i].read
                  /\ ~acq[i].returnedExpired
            /\ acq[i].expiredAtCheck =>
                  acq[i].returned.token # acq[i].read.token

\* An expired cached credential without refresh token: replaced interactively.
C5_Witness ==
    \E i \in Invocations :
        /\ acq[i].result = "returned"
        /\ acq[i].expiredAtCheck
        /\ acq[i].read.refresh_token = 0
        /\ acq[i].interactive

\* C10 as stated: every endpoint delivers a failure as a textual error
\* result in its normal return value; none raises.
C10_EveryFailureReturnedAsText ==
    \A i \in Invocations :
        out[i].cause # "" => out[i].delivered.kind = "text"

\* C10 as amended: a failure of an endpoint's external call, or of the
\* credential acquisition before it, ends the invocation at once; a tool or
\* resource of server.py returns its error prefix followed by the message, an
\* endpoint of gdrive_mcp_server.py raises HTTPException with status 500 and
\* the message as detail.
C10_FailureDeliveredOnceByServer ==
    \A i \in Invocations :
        /\ out[i].cause # "" =>
              /\ ipc[i] = "done"
              /\ IF endpoint[i] \in AwsEndpoints
                 THEN /\ out[i].delivered.kind = "text"
                      /\ out[i].delivered.text
                            = AwsErrorPrefix[endpoint[i]] \o out[i].cause
                 ELSE /\ out[i].delivered.kind = "raised"
                      /\ out[i].delivered.exception = "HTTPException"
                      /\ out[i].delivered.status_code = 500
                      /\ out[i].delivered.detail = out[i].cause
        /\ acq[i].result = "raised" => out[i].cause # ""

\* A tool of server.py returned an error text and a gdrive endpoint raised
\* after its credential acquisition failed.
C10_Witness ==
    \E i, j \in Invocations :
        /\ endpoint[i] = "list_s3_objects"
        /\ out[i].delivered.kind = "text"
        /\ endpoint[j] = "gsheets_read"
        /\ acq[j].result = "raised"
        /\ out[j].delivered.kind = "raised"

----------------------------------------------------------------------------
(* Further properties of the poller *)

\* C13 as stated: every result that carries a status carries a terminal one
\* (Complete, Failed, Cancelled, Timeout), and no invocation has returned
\* while the status it observed last is 'Scheduled' or 'Running'.
C13_ReturnsOnlyOnTerminal ==
    \A c \in Calls :
        /\ (pc[c] = "done" /\ ret[c].kind = "json") =>
              ret[c].body.status \in Terminal
        /\ LoopEnded(c) => LastStatus(c) \notin {"Scheduled", "Running"}

\* An invocation returns only after a status fetch that raised or that
\* yielded a status other than 'Running' (or after a failed submission).
ReturnsOnlyWhenLoopEnds ==
    \A c \in Calls :
        pc[c] = "done" =>
            LET last == Log(c)[Len(Log(c))]
            IN last.error # "" \/ (last.op = "get_query_results"
                                   /\ last.status # "Running")

\* The only calls an invocation makes are start_query and get_query_results:
\* it never stops the remote query.
NeverCancels ==
    \A c \in Calls : \A i \in DOMAIN Log(c) :
        Log(c)[i].op \in {"start_query", "get_query_results"}

\* C15: the invocation returns only when a status fetch yields a status other
\* than 'Running' or a call raises, it makes no call that cancels the job,
\* and, the service moving the job on and the loop being scheduled, an
\* invocation that is polling eventually returns.
C15_ReturnsIffStatusLeavesRunning ==
    /\ []ReturnsOnlyWhenLoopEnds
    /\ []NeverCancels
    /\ \A c \in Calls : (pc[c] = "poll") ~> (pc[c] = "done")

\* The job was seen 'Running' as often as the model allows, then 'Complete'.
C15_Witness ==
    \E c \in Calls :
        /\ LoopEnded(c)
        /\ RunningSeen(c) = MaxRunning
        /\ LastStatus(c) = "Complete"

\* The jobs invocation c submitted.
Submitted(c) ==
    {Log(c)[i].queryId : i \in {j \in DOMAIN Log(c) :
        Log(c)[j].op = "start_query" /\ Log(c)[j].error = ""}}

\* C16: of two invocations running at the same time each submits at most one
\* job, a job of its own, asks only for the results of that job, and what it
\* observed and returned is the status of that job.
C16_InvocationsIndependent ==
    \A c \in Calls :
        /\ Cardinality(Submitted(c)) <= 1
        /\ \A d \in Calls \ {c} : Submitted(c) \cap Submitted(d) = {}
        /\ \A i \in DOMAIN Log(c) :
              Log(c)[i].op = "get_query_results" =>
                  /\ Log(c)[i].queryId \in Submitted(c)
                  /\ Log(c)[i].error = "" =>
                        LET job == jobs[query_id[c]]
                        IN /\ Rank(Log(c)[i].status) <= Rank(job.status)
                           /\ Log(c)[i].status \in Terminal =>
                                 job.status = Log(c)[i].status
        /\ LoopEnded(c) =>
              /\ ret[c].kind = "json"
              /\ ret[c].body.status = LastStatus(c)

\* Both invocations returned, one Complete and one Failed, the job that was
\* submitted first having been polled last.
C16_Witness ==
    /\ LoopEnded("c1") /\ LoopEnded("c2")
    /\ query_id["c1"] = 1 /\ query_id["c2"] = 2
    /\ ret["c1"].body.status = "Complete"
    /\ ret["c2"].body.status = "Failed"
    /\ RunningSeen("c1") = 1

\* C17 as stated: whatever the look-back parameter, the time range submitted
\* with start_query has its start not after its end.
C17_StartNotAfterEnd ==
    \A q \in DOMAIN jobs : jobs[q].startTime <= jobs[q].endTime

\* C18: on 'Complete' the returned statistics are exactly recordsMatched,
\* recordsScanned and bytesScanned, each holding the value the response
\* supplies for it and 0 when the response does not supply it, also when the
\* response has no 'statistics' at all.
C18_StatisticsDefaultToZero ==
    \A c \in Calls :
        (LoopEnded(c) /\ LastStatus(c) = "Complete") =>
            LET st == ret[c].body.statistics
                r == response[c]
            IN /\ DOMAIN st = {"recordsMatched", "recordsScanned", "bytesScanned"}
               /\ \A n \in DOMAIN st :
                     IF "statistics" \in DOMAIN r
                     THEN IF n \in DOMAIN r["statistics"]
                          THEN st[n] = r["statistics"][n]
                          ELSE st[n] = 0
                     ELSE st[n] = 0

\* A response that supplies recordsScanned and bytesScanned only.
C18_Witness ==
    \E c \in Calls :
        /\ LoopEnded(c) /\ LastStatus(c) = "Complete"
        /\ "statistics" \in DOMAIN response[c]
        /\ DOMAIN response[c]["statistics"] = {"recordsScanned", "bytesScanned"}
        /\ ret[c].body.statistics["recordsMatched"] = 0
        /\ ret[c].body.statistics["recordsScanned"] = 8

----------------------------------------------------------------------------
(* Properties of list_s3_objects and cloudwatch_resource *)

\* The invocation got a response from the provider.
Answered(i, e) ==
    /\ ipc[i] = "done"
    /\ endpoint[i] = e
    /\ "response" \in DOMAIN out[i]

\* C11: list_s3_objects returns exactly the keys of the provider's listing,
\* one per listed object and in the provider's order; a response without
\* contents yields the empty list.
C11_KeysInProviderOrder ==
    \A i \in Invocations :
        Answered(i, "list_s3_objects") =>
            LET resp == out[i].response
                keys == out[i].delivered.body
            IN /\ out[i].delivered.kind = "json"
               /\ IF "Contents" \in DOMAIN resp
                  THEN /\ Len(keys) = Len(resp["Contents"])
                       /\ \A k \in 1..Len(keys) :
                             keys[k] = resp["Contents"][k].Key
                  ELSE keys = <<>>

\* A listing of b, a, b comes back as b, a, b.
C11_Witness ==
    \E i \in Invocations :
        /\ Answered(i, "list_s3_objects")
        /\ out[i].delivered.body = <<"b", "a", "b">>

IndexPermutations(n) ==
    {f \in [1..n -> 1..n] : \A a, b \in 1..n : a # b => f[a] # f[b]}

\* C12: cloudwatch_resource returns one point per datapoint of the provider,
\* in ascending order of timestamp whatever the provider's order, and the
\* empty list (not an error text) when the provider returns no datapoints.
C12_PointsAscending ==
    \A i \in Invocations :
        Answered(i, "cloudwatch_resource") =>
            LET dps == IF "Datapoints" \in DOMAIN out[i].response
                       THEN out[i].response["Datapoints"] ELSE <<>>
                pts == out[i].delivered.body
            IN /\ out[i].delivered.kind = "json"
               /\ out[i].cause = ""
               /\ Len(pts) = Len(dps)
               /\ \E f \in IndexPermutations(Len(dps)) :
                     /\ \A k \in 1..Len(dps) :
                           /\ pts[k].Timestamp = Strftime(dps[f[k]].Timestamp)
                           /\ pts[k].Average = dps[f[k]].Average
                     /\ \A k \in 1..(Len(dps) - 1) :
                           dps[f[k]].Timestamp <= dps[f[k + 1]].Timestamp

\* Datapoints of times 3, 1, 2 come back in the order 1, 2, 3.
C12_Witness ==
    \E i \in Invocations :
        /\ Answered(i, "cloudwatch_resource")
        /\ "Datapoints" \in DOMAIN out[i].response
        /\ Len(out[i].response["Datapoints"]) = 3
        /\ out[i].response["Datapoints"][1].Timestamp = 3
        /\ out[i].response["Datapoints"][2].Timestamp = 1
        /\ out[i].response["Datapoints"][3].Timestamp = 2
        /\ out[i].delivered.body[1].Timestamp = "1970-01-01 00:00:01"
        /\ out[i].delivered.body[3].Timestamp = "1970-01-01 00:00:03"

----------------------------------------------------------------------------
(* Properties of concurrent callers of get_google_credentials *)

\* The call is between the entry of get_google_credentials and its return.
Acquiring(i) == ipc[i] \in {"read", "check", "write", "return"}

\* Both calls found the same expired credential in token.json, both had it
\* refreshed by the authorization server and both wrote token.json.
BothRefreshedSameCredential(i, j) ==
    /\ i # j
    /\ acq[i].refreshed /\ acq[j].refreshed
    /\ acq[i].expiredAtCheck /\ acq[j].expiredAtCheck
    /\ acq[i].read = acq[j].read
    /\ acq[i].wrote /\ acq[j].wrote

----------------------------------------------------------------------------
(* Properties of the configuration *)

KeyPair == {"aws_access_key_id", "aws_secret_access_key"}

\* C19: whatever of the access key, the secret key and the session token the
\* process environment holds, the explicit credentials handed to the clients
\* are empty, or hold both the access key and the secret key; they hold a
\* session token only together with both.
C19_NoPartialCredential ==
    proc.server = "loaded" =>
        /\ DOMAIN boto3_config = {} \/ KeyPair \subseteq DOMAIN boto3_config
        /\ "aws_session_token" \in DOMAIN boto3_config =>
              KeyPair \subseteq DOMAIN boto3_config
        /\ \A k \in DOMAIN boto3_config : boto3_config[k] # ""

\* An access key and a session token without a secret key: nothing is handed
\* to the clients.
C19_Witness ==
    /\ proc.server = "loaded"
    /\ Truthy(environ, "AWS_ACCESS_KEY_ID")
    /\ Truthy(environ, "AWS_SESSION_TOKEN")
    /\ ~Truthy(environ, "AWS_SECRET_ACCESS_KEY")
    /\ DOMAIN boto3_config = {}

\* The region of the entry that the setup wrote to mcp.json.
WrittenRegion ==
    cursor_dir.mcp_json.config["mcpServers"][ServerKey(setup.advanced)]
        .env["AWS_DEFAULT_REGION"]

\* C20: the entry that setup_cursor_mcp writes carries the region of the env
\* file when the file gives one, otherwise the region of the process
\* environment, and 'us-east-1' only when neither supplies one.
C20_RegionFromFileThenEnvironment ==
    setup.ret = "True" =>
        LET given == LoadEnvFile(setup.env_file)
        IN IF "AWS_DEFAULT_REGION" \in DOMAIN given
           THEN WrittenRegion = given["AWS_DEFAULT_REGION"]
           ELSE IF Truthy(environ, "AWS_DEFAULT_REGION")
                THEN WrittenRegion = environ["AWS_DEFAULT_REGION"]
                ELSE WrittenRegion = "us-east-1"

====
